---- MODULE Spec2Model ----
(***************************************************************************)
(* Photo2Map (src/main.py): a folder of JPEG files is scanned for EXIF GPS *)
(* data, the records are put in a time-sorted table, every row gets a      *)
(* colour scalar and a marker, and the map is written to map.html.  A      *)
(* Tkinter window offers two handlers, upload_image and open_map.          *)
(*                                                                         *)
(* Representation.                                                         *)
(*  - A raised Python exception is a result record with raised = TRUE and  *)
(*    the exception class in exc; a normal return has raised = FALSE and   *)
(*    the returned object in value.                                        *)
(*  - Angles are integers in arc-seconds: the float deg + min/60 +         *)
(*    sec/3600 is the integer 3600*deg + 60*min + sec divided by 3600.     *)
(*  - An EXIF handle is a record; attrs is the set of attributes the       *)
(*    file holds, and reading an attribute outside attrs raises.           *)
(*  - A datetime text is its six numeric fields and its five separators.   *)
(*  - A path images/<n>.jpg is the integer n; rglob order is name order.   *)
(*  - A colour scalar is the fraction num/den.                             *)
(***************************************************************************)
EXTENDS Integers, Sequences, FiniteSets, TLC

\* ---------------------------------------------------------------- bounds
MaxFiles == 3
MaxClicks == 1
MaxDeg == 2
MaxMin == 2
MaxSec == 2

\* ------------------------------------------------------- result records
Return(v) == [raised |-> FALSE, exc |-> "", value |-> v]
Raise(e) == [raised |-> TRUE, exc |-> e, value |-> <<>>]

\* ------------------------------------------------------------ EXIF data
GpsAttrs == {"gps_latitude", "gps_latitude_ref", "gps_longitude",
             "gps_longitude_ref", "gps_altitude"}

Text(y, mo, d, h, mi, s, seps) ==
  [fields |-> <<y, mo, d, h, mi, s>>, seps |-> seps]

ExifSeps == <<":", ":", " ", ":", ":">>
IsoSeps == <<"-", "-", " ", ":", ":">>

T1 == Text(2020, 12, 31, 23, 59, 59, ExifSeps)
T2 == Text(2021, 1, 1, 0, 0, 0, ExifSeps)
T3 == Text(2021, 1, 1, 0, 0, 1, ExifSeps)
BadSeps == Text(2021, 1, 1, 0, 0, 0, IsoSeps)

Exif(readable, attrs, lat, latref, lon, lonref, alt, dt) ==
  [readable |-> readable, attrs |-> attrs,
   gps_latitude |-> lat, gps_latitude_ref |-> latref,
   gps_longitude |-> lon, gps_longitude_ref |-> lonref,
   gps_altitude |-> alt, datetime |-> dt]

AllAttrs == GpsAttrs \cup {"datetime"}

\* The file contents the folder is populated from.
ExifSamples ==
  { Exif(TRUE, AllAttrs, <<1, 30, 0>>, "N", <<2, 0, 30>>, "E", 10, T1),
    Exif(TRUE, AllAttrs, <<0, 30, 0>>, "s", <<1, 0, 0>>, "w", 20, T2),
    Exif(TRUE, GpsAttrs, <<1, 0, 0>>, "S", <<1, 0, 0>>, "E", 5, T1),
    Exif(TRUE, AllAttrs, <<1, 0, 0>>, "N", <<1, 0, 0>>, "E", 5, BadSeps),
    Exif(TRUE, AllAttrs, <<1, 0, 0>>, "N", <<1, 0, 0>>, "", 5, T2),
    Exif(TRUE, {"datetime"}, <<0, 0, 0>>, "N", <<0, 0, 0>>, "E", 0, T1),
    Exif(TRUE, AllAttrs \ {"gps_altitude"},
         <<1, 0, 0>>, "N", <<1, 0, 0>>, "E", 0, T2),
    Exif(FALSE, {}, <<0, 0, 0>>, "N", <<0, 0, 0>>, "E", 0, T1) }

\* --------------------------------------------------------- read_exif_data
read_exif_data(file) ==
  IF file.readable THEN Return(file) ELSE Raise("OSError")

\* ------------------------------------------------ convert_coords_to_decimal
upper(ref) ==
  CASE ref = "n" -> "N"
    [] ref = "s" -> "S"
    [] ref = "e" -> "E"
    [] ref = "w" -> "W"
    [] ref = "x" -> "X"
    [] OTHER -> ref

\* 3600 * (coords[0] + coords[1] / 60 + coords[2] / 3600)
Magnitude(coords) == 3600 * coords[1] + 60 * coords[2] + coords[3]

HemisphereMessage == "Incorrect hemisphere reference."

\* variant: mul starts at 1, so an unknown reference keeps the positive sign
convert_coords_default_sign(coords, ref) ==
  IF upper(ref) \in {"W", "S"}
  THEN [raised |-> FALSE, exc |-> "", stdout |-> <<>>,
        value |-> (-1) * Magnitude(coords)]
  ELSE IF upper(ref) \in {"E", "N"}
       THEN [raised |-> FALSE, exc |-> "", stdout |-> <<>>,
             value |-> 1 * Magnitude(coords)]
       ELSE [raised |-> FALSE, exc |-> "", stdout |-> <<HemisphereMessage>>,
             value |-> 1 * Magnitude(coords)]

convert_coords_to_decimal(coords, ref) ==
  IF upper(ref) \in {"W", "S"}
  THEN [raised |-> FALSE, exc |-> "", stdout |-> <<>>,
        value |-> (-1) * Magnitude(coords)]
  ELSE IF upper(ref) \in {"E", "N"}
       THEN [raised |-> FALSE, exc |-> "", stdout |-> <<>>,
             value |-> 1 * Magnitude(coords)]
       ELSE [raised |-> TRUE, exc |-> "UnboundLocalError",
             stdout |-> <<HemisphereMessage>>, value |-> 0]

\* -------------------------------------------- get_decimal_coord_from_exif
\* variant: a missing altitude is read as 0 instead of raising
get_decimal_coord_optional_altitude(exif_data) ==
  IF "gps_latitude" \notin exif_data.attrs THEN Raise("AttributeError")
  ELSE IF "gps_latitude_ref" \notin exif_data.attrs THEN Raise("AttributeError")
  ELSE LET lat == convert_coords_to_decimal(exif_data.gps_latitude,
                                            exif_data.gps_latitude_ref)
       IN IF lat.raised THEN Raise(lat.exc)
  ELSE IF "gps_longitude" \notin exif_data.attrs THEN Raise("AttributeError")
  ELSE IF "gps_longitude_ref" \notin exif_data.attrs THEN Raise("AttributeError")
  ELSE LET lon == convert_coords_to_decimal(exif_data.gps_longitude,
                                            exif_data.gps_longitude_ref)
       IN IF lon.raised THEN Raise(lon.exc)
  ELSE Return(<<lat.value, lon.value,
                IF "gps_altitude" \in exif_data.attrs
                THEN exif_data.gps_altitude ELSE 0>>)

get_decimal_coord_from_exif(exif_data) ==
  IF "gps_latitude" \notin exif_data.attrs THEN Raise("AttributeError")
  ELSE IF "gps_latitude_ref" \notin exif_data.attrs THEN Raise("AttributeError")
  ELSE LET lat == convert_coords_to_decimal(exif_data.gps_latitude,
                                            exif_data.gps_latitude_ref)
       IN IF lat.raised THEN Raise(lat.exc)
  ELSE IF "gps_longitude" \notin exif_data.attrs THEN Raise("AttributeError")
  ELSE IF "gps_longitude_ref" \notin exif_data.attrs THEN Raise("AttributeError")
  ELSE LET lon == convert_coords_to_decimal(exif_data.gps_longitude,
                                            exif_data.gps_longitude_ref)
       IN IF lon.raised THEN Raise(lon.exc)
  ELSE IF "gps_altitude" \notin exif_data.attrs THEN Raise("AttributeError")
  ELSE Return(<<lat.value, lon.value, exif_data.gps_altitude>>)

\* ------------------------------------------- read_spatial_data_from_folder
\* folder.rglob('*.jpg'): the paths of the folder, in name order.
RECURSIVE Ascending(_)
Ascending(S) ==
  IF S = {} THEN <<>>
  ELSE LET m == CHOOSE x \in S : \A y \in S : x <= y
       IN <<m>> \o Ascending(S \ {m})

source_files(folder) == Ascending(DOMAIN folder)

NoneTimestamp == [isnull |-> TRUE, text |-> T1]

\* data.datetime, with the AttributeError handler of the scan
RawTimestamp(data) ==
  IF "datetime" \in data.attrs
  THEN [isnull |-> FALSE, text |-> data.datetime]
  ELSE NoneTimestamp

Record(f, coord, data) ==
  [latitude |-> coord[1], longitude |-> coord[2], altitude |-> coord[3],
   filepath |-> f, timestamp |-> RawTimestamp(data)]

Put(d, k, v) == [x \in DOMAIN d \cup {k} |-> IF x = k THEN v ELSE d[x]]

RECURSIVE ScanLoop(_, _, _, _)
ScanLoop(folder, files, i, coord_dict) ==
  IF i > Len(files) THEN Return(coord_dict)
  ELSE LET f == files[i]
           coord == get_decimal_coord_from_exif(folder[f])
       IN IF coord.raised
          THEN IF coord.exc \in {"AttributeError", "KeyError"}
               THEN ScanLoop(folder, files, i + 1, coord_dict)
               ELSE Raise(coord.exc)
          ELSE ScanLoop(folder, files, i + 1,
                        Put(coord_dict, f, Record(f, coord.value, folder[f])))

read_spatial_data_from_folder(folder) ==
  LET files == source_files(folder)
  IN IF \E i \in 1..Len(files) : read_exif_data(folder[files[i]]).raised
     THEN Raise("OSError")
     ELSE ScanLoop(folder, files, 1, << >>)

\* ------------------------------------------------------------ Table Builder
\* pd.DataFrame(res).T: one row per key of res, in insertion order
DataFrame(res) == [i \in 1..Len(Ascending(DOMAIN res)) |-> res[Ascending(DOMAIN res)[i]]]

IsLeap(y) == (y % 4 = 0 /\ y % 100 # 0) \/ y % 400 = 0

DaysIn(y, mo) ==
  IF mo = 2 THEN (IF IsLeap(y) THEN 29 ELSE 28)
  ELSE IF mo \in {4, 6, 9, 11} THEN 30 ELSE 31

\* strptime(text, "%Y:%m:%d %H:%M:%S")
strptime(text) ==
  LET f == text.fields
  IN IF /\ text.seps = ExifSeps
        /\ f[2] \in 1..12
        /\ f[3] \in 1..DaysIn(f[1], f[2])
        /\ f[4] \in 0..23
        /\ f[5] \in 0..59
        /\ f[6] \in 0..59
     THEN Return([nat |-> FALSE, t |-> f])
     ELSE Raise("ValueError")

NaT == [nat |-> TRUE, t |-> <<0, 0, 0, 0, 0, 0>>]

ParseCell(ts) == IF ts.isnull THEN Return(NaT) ELSE strptime(ts.text)

\* pd.to_datetime(df.timestamp, format="%Y:%m:%d %H:%M:%S"), errors='raise'
to_datetime(df) ==
  IF \E i \in 1..Len(df) : ParseCell(df[i].timestamp).raised
  THEN Raise("ValueError")
  ELSE Return([i \in 1..Len(df) |->
                 [df[i] EXCEPT !.timestamp = ParseCell(df[i].timestamp).value]])

RECURSIVE LexLess(_, _, _)
LexLess(a, b, i) ==
  IF i > Len(a) THEN FALSE
  ELSE IF a[i] # b[i] THEN a[i] < b[i]
  ELSE LexLess(a, b, i + 1)

\* a < b for two datetimes that are not NaT
Before(a, b) == LexLess(a.t, b.t, 1)

\* insertion of row r behind the rows that are not after it
RECURSIVE Insert(_, _)
Insert(sorted, r) ==
  IF sorted = <<>> THEN <<r>>
  ELSE IF Before(r.timestamp, Head(sorted).timestamp)
       THEN <<r>> \o sorted
       ELSE <<Head(sorted)>> \o Insert(Tail(sorted), r)

RECURSIVE argsort(_)
argsort(rows) ==
  IF rows = <<>> THEN <<>>
  ELSE Insert(argsort(SubSeq(rows, 1, Len(rows) - 1)), rows[Len(rows)])

\* variant: sort_values without inplace=True leaves df as it was
sort_values_not_inplace(df) == df

\* df.sort_values('timestamp', inplace=True): ascending, na_position='last'
sort_values(df) ==
  argsort(SelectSeq(df, LAMBDA r : ~r.timestamp.nat))
    \o SelectSeq(df, LAMBDA r : r.timestamp.nat)

\* ------------------------------------------------------------- Color Mapper
\* variant: the end point is left out, as with endpoint=False
linspace_no_endpoint(num) ==
  [i \in 1..num |-> [num |-> i - 1, den |-> num]]

\* np.linspace(0, 1, num): num evenly spaced fractions, end point included
linspace(num) ==
  [i \in 1..num |-> IF num = 1 THEN [num |-> 0, den |-> 1]
                    ELSE [num |-> i - 1, den |-> num - 1]]

\* ------------------------------------------------------------- Map Renderer
Margin == 3 * 3600

Max(S) == CHOOSE x \in S : \A y \in S : y <= x
Min(S) == CHOOSE x \in S : \A y \in S : x <= y

Column(df, c) == {df[i][c] : i \in 1..Len(df)}

Marker(row, col) ==
  [location |-> <<row.latitude, row.longitude>>, color |-> col,
   date |-> row.timestamp, photo_url |-> row.filepath]

NoFile == [exists |-> FALSE, markers |-> <<>>, bounds |-> <<>>]

\* the outcome of a run that raised exc after the stages it completed
Failed(exc, scanned, res, built, df) ==
  [raised |-> TRUE, exc |-> exc, scanned |-> scanned, res |-> res,
   built |-> built, df |-> df, color_mapping |-> <<>>, saved |-> FALSE,
   value |-> NoFile]

\* ------------------------------------------------------------ generate_map
\* lines 86-124: sort, colour, viewport, markers, save
Rendered(res, parsed) ==
  LET df == sort_values(parsed)
      color_mapping == linspace(Len(df))
      sw == <<Max(Column(df, "latitude")) + Margin,
              Min(Column(df, "longitude")) - Margin>>
      ne == <<Min(Column(df, "latitude")) - Margin,
              Max(Column(df, "longitude")) + Margin>>
  IN [raised |-> FALSE, exc |-> "", scanned |-> TRUE, res |-> res,
      built |-> TRUE, df |-> df, color_mapping |-> color_mapping,
      saved |-> TRUE,
      value |-> [exists |-> TRUE,
                 markers |-> [i \in 1..Len(df) |->
                                Marker(df[i], color_mapping[i])],
                 bounds |-> <<sw, ne>>]]

\* variant: the empty map is saved before the table is built
generate_map_save_first(folder) ==
  LET res == read_spatial_data_from_folder(folder)
      empty == [exists |-> TRUE, markers |-> <<>>, bounds |-> <<>>]
  IN IF res.raised THEN Failed(res.exc, FALSE, << >>, FALSE, <<>>)
     ELSE IF DOMAIN res.value = {}
          THEN [Failed("AttributeError", TRUE, res.value, FALSE, <<>>)
                  EXCEPT !.saved = TRUE, !.value = empty]
     ELSE LET parsed == to_datetime(DataFrame(res.value))
          IN IF parsed.raised
             THEN [Failed(parsed.exc, TRUE, res.value, FALSE, <<>>)
                     EXCEPT !.saved = TRUE, !.value = empty]
             ELSE Rendered(res.value, parsed.value)

\* df.timestamp on the frame of an empty dict, which has no column, raises
generate_map(folder) ==
  LET res == read_spatial_data_from_folder(folder)
  IN IF res.raised THEN Failed(res.exc, FALSE, << >>, FALSE, <<>>)
     ELSE IF DOMAIN res.value = {}
          THEN Failed("AttributeError", TRUE, res.value, FALSE, <<>>)
     ELSE LET parsed == to_datetime(DataFrame(res.value))
          IN IF parsed.raised
             THEN Failed(parsed.exc, TRUE, res.value, FALSE, <<>>)
             ELSE Rendered(res.value, parsed.value)

\* ------------------------------------------------------------------- state
VARIABLES
  images,     \* the watched folder: path -> file contents
  outside,    \* the files elsewhere on disk that the dialog can pick
  map_html,   \* the output document on disk
  browser,    \* the documents opened in the browser, oldest first
  dialogs,    \* number of error dialogs shown
  last,       \* what the last handler did
  clicks,     \* number of handler runs
  conv        \* one call of convert_coords_to_decimal and its result

vars == <<images, outside, map_html, browser, dialogs, last, clicks, conv>>

Names == 1..MaxFiles

Folders == UNION {[S -> ExifSamples] : S \in SUBSET Names}

GoodUpload ==
  Exif(TRUE, AllAttrs, <<2, 30, 0>>, "n", <<2, 30, 0>>, "W", 7, T3)
BadUpload ==
  Exif(TRUE, AllAttrs, <<1, 0, 0>>, "Z", <<1, 0, 0>>, "E", 5, T1)

\* the files offered by the file dialog: path 1 and path 2 of another folder
Desktop == [n \in 1..2 |-> IF n = 1 THEN GoodUpload ELSE BadUpload]

\* a map.html left by an earlier session
StaleDocument ==
  [exists |-> TRUE,
   markers |-> <<[location |-> <<0, 0>>, color |-> [num |-> 0, den |-> 1],
                  date |-> NaT, photo_url |-> 1]>>,
   bounds |-> <<<<Margin, 0 - Margin>>, <<0 - Margin, Margin>>>>]

NoRun == Failed("", FALSE, << >>, FALSE, <<>>)

NoSnapshot ==
  [images |-> << >>, outside |-> << >>, map_html |-> NoFile, browser |-> <<>>,
   dialogs |-> 0]

Idle ==
  [handler |-> "none", file_path |-> 0, moved |-> FALSE, ran |-> FALSE,
   run |-> NoRun, escaped |-> "", dialog |-> FALSE, opened |-> FALSE,
   before |-> NoSnapshot]

ConvIdle == [coords |-> <<0, 0, 0>>, ref |-> "N", done |-> FALSE,
             result |-> [raised |-> FALSE, exc |-> "", stdout |-> <<>>,
                         value |-> 0]]

Init ==
  /\ images \in Folders
  /\ outside = Desktop
  /\ map_html \in {NoFile, StaleDocument}
  /\ browser = <<>>
  /\ dialogs = 0
  /\ last = Idle
  /\ clicks = 0
  /\ conv = ConvIdle

\* the state a handler starts in
Snapshot ==
  [images |-> images, outside |-> outside, map_html |-> map_html,
   browser |-> browser, dialogs |-> dialogs]

\* ---------------------------------------------------------------- open_map
\* an exception of generate_map leaves open_map before webbrowser.open
open_map ==
  /\ clicks < MaxClicks
  /\ LET run == generate_map(images)
     IN /\ map_html' = IF run.saved THEN run.value ELSE map_html
        /\ browser' = IF run.raised THEN browser
                      ELSE Append(browser, map_html')
        /\ last' = [handler |-> "open_map", file_path |-> 0, moved |-> FALSE,
                    ran |-> TRUE, run |-> run,
                    escaped |-> IF run.raised THEN run.exc ELSE "",
                    dialog |-> FALSE, opened |-> ~run.raised,
                    before |-> Snapshot]
  /\ clicks' = clicks + 1
  /\ UNCHANGED <<images, outside, dialogs, conv>>

\* ------------------------------------------------------------ upload_image
\* variant: except OSError
upload_except_oserror(exc) == exc = "OSError"

\* except Exception: every exception class of this program derives from it
upload_except(exc) == TRUE

\* file_path = 0 is the empty string of a cancelled dialog; replace_ok is
\* whether the operating system carries out Path.replace
upload_image ==
  /\ clicks < MaxClicks
  /\ \E file_path \in {0} \cup DOMAIN outside, replace_ok \in BOOLEAN :
       IF file_path = 0
       THEN /\ replace_ok
            /\ last' = [Idle EXCEPT !.handler = "upload_image",
                                    !.before = Snapshot]
            /\ UNCHANGED <<images, outside, map_html, dialogs>>
       ELSE IF ~replace_ok
       THEN /\ last' = [Idle EXCEPT !.handler = "upload_image",
                                    !.file_path = file_path,
                                    !.dialog = upload_except("OSError"),
                                    !.escaped = IF upload_except("OSError")
                                                THEN "" ELSE "OSError",
                                    !.before = Snapshot]
            /\ dialogs' = IF upload_except("OSError")
                          THEN dialogs + 1 ELSE dialogs
            /\ UNCHANGED <<images, outside, map_html>>
       ELSE LET moved == Put(images, file_path, outside[file_path])
                run == generate_map(moved)
                caught == run.raised /\ upload_except(run.exc)
            IN /\ images' = moved
               /\ outside' = [n \in DOMAIN outside \ {file_path} |-> outside[n]]
               /\ map_html' = IF run.saved THEN run.value ELSE map_html
               /\ dialogs' = IF caught THEN dialogs + 1 ELSE dialogs
               /\ last' = [handler |-> "upload_image", file_path |-> file_path,
                           moved |-> TRUE, ran |-> TRUE, run |-> run,
                           escaped |-> IF run.raised /\ ~caught
                                       THEN run.exc ELSE "",
                           dialog |-> caught, opened |-> FALSE,
                           before |-> Snapshot]
  /\ clicks' = clicks + 1
  /\ UNCHANGED <<browser, conv>>

Next == open_map \/ upload_image

Spec == Init /\ [][Next]_vars

\* --------------------------------- convert_coords_to_decimal on its own
Refs == {"N", "n", "S", "s", "E", "e", "W", "w", "X", "x", "", "NE"}

InitConvert ==
  /\ images = << >>
  /\ outside = Desktop
  /\ map_html = NoFile
  /\ browser = <<>>
  /\ dialogs = 0
  /\ last = Idle
  /\ clicks = 0
  /\ conv \in {[ConvIdle EXCEPT !.coords = <<d, m, s>>, !.ref = r] :
                 d \in 0..MaxDeg, m \in 0..MaxMin, s \in 0..MaxSec, r \in Refs}

Convert ==
  /\ ~conv.done
  /\ conv' = [conv EXCEPT !.done = TRUE,
                          !.result = convert_coords_to_decimal(conv.coords,
                                                               conv.ref)]
  /\ UNCHANGED <<images, outside, map_html, browser, dialogs, last, clicks>>

NextConvert == Convert

SpecConvert == InitConvert /\ [][NextConvert]_vars

\* ================================================================== claims
\* The vocabulary of the claims, stated on the file contents alone.
ValidRef(r) == r \in {"N", "n", "S", "s", "E", "e", "W", "w"}

Readable(x) == x.readable

LatLonAttrs == {"gps_latitude", "gps_latitude_ref", "gps_longitude",
                "gps_longitude_ref"}

\* a hemisphere reference that is present and is not one of N, S, E, W
InvalidRef(x) ==
  /\ x.readable
  /\ \/ "gps_latitude_ref" \in x.attrs /\ ~ValidRef(x.gps_latitude_ref)
     \/ "gps_longitude_ref" \in x.attrs /\ ~ValidRef(x.gps_longitude_ref)

\* valid location data: every GPS field present, both references valid
ValidLocation(x) ==
  /\ x.readable
  /\ GpsAttrs \subseteq x.attrs
  /\ ValidRef(x.gps_latitude_ref)
  /\ ValidRef(x.gps_longitude_ref)

WellFormed(text) ==
  /\ text.seps = <<":", ":", " ", ":", ":">>
  /\ text.fields[2] \in 1..12
  /\ text.fields[3] \in 1..31
  /\ text.fields[4] \in 0..23
  /\ text.fields[5] \in 0..59
  /\ text.fields[6] \in 0..59

ValidTimestamp(x) == "datetime" \in x.attrs /\ WellFormed(x.datetime)

Signed(coords, ref) ==
  (IF ref \in {"S", "s", "W", "w"} THEN -1 ELSE 1)
    * (3600 * coords[1] + 60 * coords[2] + coords[3])

\* the folder the last handler ran the pipeline on
Scanned == images

\* C1: a file with an invalid hemisphere reference is skipped and the scan
\* goes on: in a folder of readable files the scan returns, holds no record
\* for that file and holds a record for every file with valid location data.
C1_InvalidRefSkipped ==
  (/\ last.ran
   /\ \A f \in DOMAIN Scanned : Readable(Scanned[f])
   /\ \E f \in DOMAIN Scanned : InvalidRef(Scanned[f]))
  => /\ last.run.scanned
     /\ \A f \in DOMAIN Scanned :
          /\ InvalidRef(Scanned[f]) => f \notin DOMAIN last.run.res
          /\ ValidLocation(Scanned[f]) => f \in DOMAIN last.run.res

\* C2: a file that read_exif_data cannot open or parse is skipped and the
\* scan goes on: the scan returns and holds a record for every file with
\* valid location data.
C2_UnreadableSkipped ==
  (/\ last.ran
   /\ \A f \in DOMAIN Scanned : ~InvalidRef(Scanned[f])
   /\ \E f \in DOMAIN Scanned : ~Readable(Scanned[f]))
  => /\ last.run.scanned
     /\ \A f \in DOMAIN Scanned :
          /\ ~Readable(Scanned[f]) => f \notin DOMAIN last.run.res
          /\ ValidLocation(Scanned[f]) => f \in DOMAIN last.run.res

WithGps == {f \in DOMAIN Scanned : ValidLocation(Scanned[f])}
WithoutTimestamp == {f \in WithGps : ~ValidTimestamp(Scanned[f])}
NullRows(df) == {i \in 1..Len(df) : df[i].timestamp.nat}

\* C3: with k >= 1 photos with valid GPS data, j of them without a valid
\* timestamp, in a folder the scan returns from, the table has exactly k
\* rows and exactly j of them have a null timestamp.
C3_RowsKeptWithNullTimestamp ==
  (/\ last.ran
   /\ last.run.scanned
   /\ WithGps # {})
  => /\ last.run.built
     /\ Len(last.run.df) = Cardinality(WithGps)
     /\ Cardinality(NullRows(last.run.df)) = Cardinality(WithoutTimestamp)

\* C4: when the scan yields no record, generate_map runs to completion,
\* places zero markers and writes the document.
C4_EmptyScanCompletes ==
  (last.ran /\ last.run.scanned /\ DOMAIN last.run.res = {})
  => /\ ~last.run.raised
     /\ last.run.saved
     /\ last.run.value.markers = <<>>

\* C5: convert_coords_to_decimal returns +(deg + min/60 + sec/3600) for a
\* reference N or E, the negation for S or W (any case), and for any other
\* reference it reports an error and returns no value.
C5_SignedDecimal ==
  conv.done =>
    LET mag == 3600 * conv.coords[1] + 60 * conv.coords[2] + conv.coords[3]
        r == conv.result
    IN /\ conv.ref \in {"N", "n", "E", "e"}
            => ~r.raised /\ r.value = mag /\ r.stdout = <<>>
       /\ conv.ref \in {"S", "s", "W", "w"}
            => ~r.raised /\ r.value = 0 - mag /\ r.stdout = <<>>
       /\ ~ValidRef(conv.ref) => r.raised /\ r.stdout # <<>>

C5_Witness ==
  /\ conv.done
  /\ conv.ref = "w"
  /\ conv.coords = <<1, 1, 1>>
  /\ conv.result.value = -3661

\* C6: the row at 0-indexed position i of the sorted table of N rows has
\* colour scalar i/(N-1) when N > 1 and 0 when N = 1; for N > 1 the scalars
\* increase strictly, are evenly spaced, start at 0 and end at 1, and every
\* marker carries the scalar of its row.
C6_ColourScalars ==
  (last.ran /\ last.run.built) =>
    LET N == Len(last.run.df)
        c == last.run.color_mapping
        m == last.run.value.markers
    IN /\ N >= 1
       /\ Len(c) = N
       /\ Len(m) = N
       /\ \A i \in 1..N : /\ m[i].color = c[i]
                          /\ m[i].photo_url = last.run.df[i].filepath
                          /\ c[i].den > 0
       /\ N = 1 => c[1].num = 0
       /\ N > 1 =>
            /\ \A i \in 1..N : c[i].num * (N - 1) = (i - 1) * c[i].den
            /\ \A i \in 1..(N - 1) :
                 c[i].num * c[i + 1].den < c[i + 1].num * c[i].den
            /\ c[1].num = 0
            /\ c[N].num = c[N].den

C6_Witness ==
  /\ last.ran
  /\ last.run.built
  /\ Len(last.run.df) = 3
  /\ last.run.color_mapping[2] = [num |-> 1, den |-> 2]

\* C7: in the table, rows with a timestamp are in non-decreasing timestamp
\* order, every row with a null timestamp comes after every row with a
\* timestamp, and the table holds exactly the scanned records.
C7_SortedNullsLast ==
  (last.ran /\ last.run.built) =>
    LET df == last.run.df
    IN /\ {df[i].filepath : i \in 1..Len(df)} = DOMAIN last.run.res
       /\ Len(df) = Cardinality(DOMAIN last.run.res)
       /\ \A i, j \in 1..Len(df) :
            i < j =>
              /\ (~df[i].timestamp.nat /\ ~df[j].timestamp.nat)
                   => ~LexLess(df[j].timestamp.t, df[i].timestamp.t, 1)
              /\ df[i].timestamp.nat => df[j].timestamp.nat

\* a null row and two rows whose time order is the reverse of their scan order
C7_Witness ==
  /\ last.ran
  /\ last.run.built
  /\ Len(last.run.df) = 3
  /\ last.run.df[3].timestamp.nat
  /\ last.run.df[3].filepath = 1
  /\ ~last.run.df[2].timestamp.nat
  /\ last.run.df[1].filepath > last.run.df[2].filepath
  /\ LexLess(last.run.df[1].timestamp.t, last.run.df[2].timestamp.t, 1)

\* C8 as stated: a scan that returns holds a record for a file exactly when
\* its latitude and longitude fields, with their references, are present.
C8_RecordIffLatLon ==
  (last.ran /\ last.run.scanned) =>
    \A f \in DOMAIN Scanned :
      f \in DOMAIN last.run.res <=> LatLonAttrs \subseteq Scanned[f].attrs

\* C8 amended: a scan that returns holds a record for a file exactly when
\* latitude, longitude, both references and altitude are all present; every
\* record holds the signed latitude and longitude and the altitude of its
\* file; and a scan raises only over an unreadable file or an invalid
\* hemisphere reference, never over a file that lacks GPS fields.
C8_RecordIffAllGps ==
  /\ (last.ran /\ last.run.scanned) =>
       \A f \in DOMAIN Scanned :
         /\ f \in DOMAIN last.run.res <=> GpsAttrs \subseteq Scanned[f].attrs
         /\ f \in DOMAIN last.run.res =>
              /\ last.run.res[f].latitude
                   = Signed(Scanned[f].gps_latitude, Scanned[f].gps_latitude_ref)
              /\ last.run.res[f].longitude
                   = Signed(Scanned[f].gps_longitude, Scanned[f].gps_longitude_ref)
              /\ last.run.res[f].altitude = Scanned[f].gps_altitude
  /\ (last.ran /\ ~last.run.scanned) =>
       \E f \in DOMAIN Scanned : ~Readable(Scanned[f]) \/ InvalidRef(Scanned[f])

\* a returned scan over a file without altitude, a file without any GPS
\* field and a file with a record
C8_Witness ==
  /\ last.ran
  /\ last.run.scanned
  /\ \E f \in DOMAIN Scanned :
       /\ LatLonAttrs \subseteq Scanned[f].attrs
       /\ "gps_altitude" \notin Scanned[f].attrs
       /\ f \notin DOMAIN last.run.res
  /\ \E f \in DOMAIN Scanned :
       /\ Scanned[f].attrs \cap GpsAttrs = {}
       /\ Readable(Scanned[f])
       /\ f \notin DOMAIN last.run.res
  /\ DOMAIN last.run.res # {}

\* C9: in upload_image no exception escapes the handler; a failed move or a
\* failed regeneration ends in the error dialog; nothing is rolled back, so
\* after a move and a failed regeneration the file is in the images folder
\* and gone from its original path; a cancelled dialog moves nothing and
\* does not run the pipeline.
C9_UploadFailureHandled ==
  last.handler = "upload_image" =>
    /\ last.escaped = ""
    /\ last.file_path = 0 =>
         /\ ~last.moved /\ ~last.ran /\ ~last.dialog
         /\ images = last.before.images
         /\ outside = last.before.outside
         /\ map_html = last.before.map_html
         /\ dialogs = last.before.dialogs
    /\ (last.file_path # 0 /\ ~last.moved) =>
         /\ last.dialog /\ ~last.ran
         /\ images = last.before.images
         /\ outside = last.before.outside
         /\ map_html = last.before.map_html
    /\ last.moved =>
         /\ last.ran
         /\ last.dialog <=> last.run.raised
         /\ last.file_path \in DOMAIN images
         /\ images[last.file_path] = last.before.outside[last.file_path]
         /\ last.file_path \notin DOMAIN outside
    /\ dialogs = last.before.dialogs + (IF last.dialog THEN 1 ELSE 0)

\* the move succeeded, the regeneration raised, the dialog was shown
C9_Witness ==
  /\ last.handler = "upload_image"
  /\ last.moved
  /\ last.run.raised
  /\ last.run.exc = "ValueError"
  /\ last.dialog
  /\ last.file_path \in DOMAIN images
  /\ last.file_path \notin DOMAIN outside

\* C10: open_map opens the browser only after its own pipeline run has
\* completed and written the document from the current folder contents;
\* when that run raises, the browser is not opened and map.html is left as
\* it was.
C10_OpenAfterRun ==
  last.handler = "open_map" =>
    /\ last.ran
    /\ last.opened <=> ~last.run.raised
    /\ last.opened =>
         /\ last.run.saved
         /\ map_html = last.run.value
         /\ map_html.exists
         /\ {map_html.markers[i].photo_url : i \in 1..Len(map_html.markers)}
              = {f \in DOMAIN images : GpsAttrs \subseteq images[f].attrs}
         /\ browser = Append(last.before.browser, map_html)
    /\ last.run.raised =>
         /\ map_html = last.before.map_html
         /\ browser = last.before.browser

\* a failed run with an earlier map.html on disk
C10_Witness ==
  /\ last.handler = "open_map"
  /\ last.run.raised
  /\ last.before.map_html.exists
  /\ map_html = StaleDocument
  /\ browser = <<>>

====
